---- MODULE Spec2Model ----
(***************************************************************************)
(* A model of the naive-graph container (src/src/lib.rs): a graph whose    *)
(* nodes and edges live in hash maps keyed by handles drawn from one       *)
(* shared counter.                                                         *)
(*                                                                         *)
(* The graph's fields are the variables next_id, nodes_data, edges_data    *)
(* and edge_nodes.  Each method is an operator on a graph record (a pure   *)
(* translation of the method body) plus an action that applies it to the   *)
(* variables.  Two history variables record what a caller has observed:    *)
(* issued (every handle returned by an add call, in call order) and last   *)
(* (the most recent call: its arguments and what it returned).  A claim    *)
(* about the effect of a call is a property of the step that sets last.    *)
(* cursor is the detached neighbor cursor a caller holds, if any, and      *)
(* adds_left bounds the number of add calls of a run.                      *)
(*                                                                         *)
(* Spec runs every method of Graph; the other specifications run the four  *)
(* calls that add and remove nodes and edges together with one group of    *)
(* further calls each (lookups, index_twice_mut, the neighbor queries, the *)
(* cursors), and SpecOverflow runs them on a graph whose counter has       *)
(* reached the end of its range.                                           *)
(***************************************************************************)
EXTENDS Integers, Sequences, FiniteSets, TLC

VARIABLES next_id, nodes_data, edges_data, edge_nodes, issued, last, adds_left, cursor

vars == <<next_id, nodes_data, edges_data, edge_nodes, issued, last, adds_left, cursor>>

(* ---- bounds of the model ---- *)

\* a run makes at most MaxNextId calls of add_node and add_edge (adds_left
\* counts them down), so that next_id stays at or below MaxNextId
MaxNextId == 4

\* the number of add calls of a run that starts at the end of the counter's
\* range (SpecOverflow)
OverflowAdds == 2

\* a drained cursor is stepped at most MaxNones times
MaxNones == 2

\* the width of usize in the model: handles and next_id are integers of
\* USIZE_BITS bits.  It is above MaxNextId, so that a run from a fresh graph
\* stays inside the range; SpecOverflow starts at the end of the range.
USIZE_BITS == 3

USIZE_MAX == 2^USIZE_BITS - 1

\* payload types: any two distinguishable values per kind
NodeUserData == {"a", "b"}
EdgeUserData == {"u", "v"}

\* placeholders in the record of a call: no handle, no payload
NoId == 0 - 1

NoData == "none"

(* ---- hash map helpers ---- *)

EmptyMap == [k \in {} |-> NoData]

MapInsert(m, k, v) == [x \in (DOMAIN m) \cup {k} |-> IF x = k THEN v ELSE m[x]]

MapRemove(m, k) == [x \in (DOMAIN m) \ {k} |-> m[x]]

MapRemoveAll(m, ks) == [x \in (DOMAIN m) \ ks |-> m[x]]

\* every order in which iterating a hash map with key set S can visit the keys
IterOrders(S) ==
    {o \in [1 .. Cardinality(S) -> S] : \A i, j \in 1 .. Cardinality(S) : o[i] = o[j] => i = j}

(* ---- the graph as a value ---- *)

Graph == [next_id |-> next_id, nodes_data |-> nodes_data,
          edges_data |-> edges_data, edge_nodes |-> edge_nodes]

default == [next_id |-> 0, nodes_data |-> EmptyMap,
            edges_data |-> EmptyMap, edge_nodes |-> EmptyMap]

(* ---- methods ---- *)

node_count(g) == Cardinality(DOMAIN g.nodes_data)

\* `self.next_id += 1` as a build without overflow checks (the release
\* profile) computes it: usize addition wraps
bump_next_id(n) == (n + 1) % (USIZE_MAX + 1)

\* whether `self.next_id += 1` panics: never below USIZE_MAX; at USIZE_MAX a
\* build with overflow checks (the dev profile) panics and one without wraps,
\* and the source fixes neither
overflow_panics(n) == IF n = USIZE_MAX THEN {TRUE, FALSE} ELSE {FALSE}

\* (variant) the new handle is the number of stored nodes, not the counter
add_node_len_id(g, node) ==
    [g   |-> [g EXCEPT !.next_id = bump_next_id(g.next_id),
                       !.nodes_data = MapInsert(g.nodes_data, node_count(g), node)],
     ret |-> node_count(g)]

add_node(g, node) ==
    [g   |-> [g EXCEPT !.next_id = bump_next_id(g.next_id),
                       !.nodes_data = MapInsert(g.nodes_data, g.next_id, node)],
     ret |-> g.next_id]

\* (variant) the scan compares only the left endpoint
incident_edges_left_only(en, id) == {e \in DOMAIN en : en[e][1] = id}

\* the edges remove_node collects in its scan of edge_nodes
incident_edges(en, id) == {e \in DOMAIN en : en[e][1] = id \/ en[e][2] = id}

\* (variant) the node's own entry is left in nodes_data
remove_node_keeps_node(g, id) ==
    LET edges == incident_edges(g.edge_nodes, id)
    IN  [g EXCEPT !.edge_nodes = MapRemoveAll(g.edge_nodes, edges),
                  !.edges_data = MapRemoveAll(g.edges_data, edges)]

\* (variant) the removal loop stops after the first collected edge
remove_node_first_edge_only(g, id) ==
    LET found == incident_edges(g.edge_nodes, id)
        edges == IF found = {} THEN {} ELSE {CHOOSE e \in found : \A f \in found : e <= f}
    IN  [g EXCEPT !.edge_nodes = MapRemoveAll(g.edge_nodes, edges),
                  !.edges_data = MapRemoveAll(g.edges_data, edges),
                  !.nodes_data = MapRemove(g.nodes_data, id)]

remove_node(g, id) ==
    LET edges == incident_edges(g.edge_nodes, id)
    IN  [g EXCEPT !.edge_nodes = MapRemoveAll(g.edge_nodes, edges),
                  !.edges_data = MapRemoveAll(g.edges_data, edges),
                  !.nodes_data = MapRemove(g.nodes_data, id)]

\* (variant) add_edge forgets to advance the counter
add_edge_no_bump(g, l, r, edge) ==
    [g   |-> [g EXCEPT !.edges_data = MapInsert(g.edges_data, g.next_id, edge),
                       !.edge_nodes = MapInsert(g.edge_nodes, g.next_id, <<l, r>>)],
     ret |-> g.next_id]

add_edge(g, l, r, edge) ==
    [g   |-> [g EXCEPT !.next_id = bump_next_id(g.next_id),
                       !.edges_data = MapInsert(g.edges_data, g.next_id, edge),
                       !.edge_nodes = MapInsert(g.edge_nodes, g.next_id, <<l, r>>)],
     ret |-> g.next_id]

\* (variant) remove_edge forgets the payload map
remove_edge_index_only(g, id) ==
    [g EXCEPT !.edge_nodes = MapRemove(g.edge_nodes, id)]

\* (variant) remove_edge also removes the edge's endpoint nodes
remove_edge_and_endpoints(g, id) ==
    LET ends == IF id \in DOMAIN g.edge_nodes
                THEN {g.edge_nodes[id][1], g.edge_nodes[id][2]} ELSE {}
    IN  [g EXCEPT !.edge_nodes = MapRemove(g.edge_nodes, id),
                  !.edges_data = MapRemove(g.edges_data, id),
                  !.nodes_data = MapRemoveAll(g.nodes_data, ends)]

remove_edge(g, id) ==
    [g EXCEPT !.edge_nodes = MapRemove(g.edge_nodes, id),
              !.edges_data = MapRemove(g.edges_data, id)]

\* (variant) the lookup ignores idx and returns the first stored payload
index_node_first(g, idx) ==
    IF DOMAIN g.nodes_data # {}
    THEN [val |-> g.nodes_data[CHOOSE k \in DOMAIN g.nodes_data :
                                 \A j \in DOMAIN g.nodes_data : k <= j],
          panicked |-> FALSE]
    ELSE [val |-> NoData, panicked |-> TRUE]

\* Index<NodeId>: the stored payload, or the panic of unwrap on None
index_node(g, idx) ==
    IF idx \in DOMAIN g.nodes_data
    THEN [val |-> g.nodes_data[idx], panicked |-> FALSE]
    ELSE [val |-> NoData, panicked |-> TRUE]

\* (variant) the lookup falls back to a default payload instead of unwrapping
index_edge_or_default(g, idx) ==
    IF idx \in DOMAIN g.edges_data
    THEN [val |-> g.edges_data[idx], panicked |-> FALSE]
    ELSE [val |-> "u", panicked |-> FALSE]

\* Index<EdgeId>
index_edge(g, idx) ==
    IF idx \in DOMAIN g.edges_data
    THEN [val |-> g.edges_data[idx], panicked |-> FALSE]
    ELSE [val |-> NoData, panicked |-> TRUE]

\* IndexMut<NodeId>: unwrap panics on an absent handle, otherwise the caller
\* writes v through the returned reference
index_mut_node(g, idx, v) ==
    IF idx \in DOMAIN g.nodes_data
    THEN [g |-> [g EXCEPT !.nodes_data = MapInsert(g.nodes_data, idx, v)], panicked |-> FALSE]
    ELSE [g |-> g, panicked |-> TRUE]

\* IndexMut<EdgeId>
index_mut_edge(g, idx, v) ==
    IF idx \in DOMAIN g.edges_data
    THEN [g |-> [g EXCEPT !.edges_data = MapInsert(g.edges_data, idx, v)], panicked |-> FALSE]
    ELSE [g |-> g, panicked |-> TRUE]

\* (variant) both references are taken with id1
index_twice_mut_same_id(g, id1, id2, v1, v2) ==
    IF id1 \notin DOMAIN g.nodes_data \/ id2 \notin DOMAIN g.nodes_data
    THEN {[g |-> g, panicked |-> TRUE]}
    ELSE {[g |-> [g EXCEPT !.nodes_data = MapInsert(g.nodes_data, id1, v)], panicked |-> FALSE] :
            v \in {v1, v2}}

\* index_twice_mut followed by the caller writing v1 and v2 through the two
\* references.  Either index_mut panics on an absent handle; for id1 = id2
\* the two references alias (undefined behaviour) and either write may be
\* the one that lasts.
index_twice_mut(g, id1, id2, v1, v2) ==
    IF id1 \notin DOMAIN g.nodes_data \/ id2 \notin DOMAIN g.nodes_data
    THEN {[g |-> g, panicked |-> TRUE]}
    ELSE IF id1 # id2
    THEN {[g |-> [g EXCEPT !.nodes_data =
                     MapInsert(MapInsert(g.nodes_data, id1, v1), id2, v2)],
           panicked |-> FALSE]}
    ELSE {[g |-> [g EXCEPT !.nodes_data = MapInsert(g.nodes_data, id1, v)], panicked |-> FALSE] :
            v \in {v1, v2}}

\* one iteration of visit_edges panics when an unwrap meets None
visit_edges_unwrap_fails(g, id) ==
    \/ id \notin DOMAIN g.edge_nodes
    \/ g.edge_nodes[id][1] \notin DOMAIN g.nodes_data
    \/ g.edge_nodes[id][2] \notin DOMAIN g.nodes_data

\* visit_edges walking edges_data in the given order: the callback
\* invocations made, and whether the walk ended in a panic
visit_edges(g, order) ==
    LET bad  == {i \in DOMAIN order : visit_edges_unwrap_fails(g, order[i])}
        stop == IF bad = {} THEN Len(order) + 1
                ELSE CHOOSE i \in bad : \A j \in bad : i <= j
    IN  [list |-> [i \in 1 .. (stop - 1) |->
                     <<order[i],
                       g.nodes_data[g.edge_nodes[order[i]][1]],
                       g.nodes_data[g.edge_nodes[order[i]][2]],
                       g.edges_data[order[i]]>>],
         panicked |-> bad # {}]

\* what neighbors pushes for an edge (l, r) that matches id
neighbors_push(l, r, id) == IF l = id THEN l ELSE r

\* neighbors walking edge_nodes in the given order
neighbors(g, id, order) ==
    LET en   == g.edge_nodes
        hits == SelectSeq(order, LAMBDA e : en[e][1] = id \/ en[e][2] = id)
    IN  [i \in 1 .. Len(hits) |-> neighbors_push(en[hits[i]][1], en[hits[i]][2], id)]

\* neighbors_data walking edge_nodes in the given order: the (NodeId, payload)
\* pairs pushed; the unwrap panics when the pushed node is absent
neighbors_data(g, id, order) ==
    LET en   == g.edge_nodes
        hits == SelectSeq(order, LAMBDA e : en[e][1] = id \/ en[e][2] = id)
        ids  == [i \in 1 .. Len(hits) |-> neighbors_push(en[hits[i]][1], en[hits[i]][2], id)]
        bad  == {i \in DOMAIN ids : ids[i] \notin DOMAIN g.nodes_data}
    IN  IF bad = {}
        THEN [list |-> [i \in DOMAIN ids |-> <<ids[i], g.nodes_data[ids[i]]>>], panicked |-> FALSE]
        ELSE [list |-> <<>>, panicked |-> TRUE]

(* ---- cursors ---- *)

\* The value of the variable cursor.  iter is the cursor struct: done is its
\* field 0, idx its field 1 and list its field 2.  The other fields are
\* history: snapshot is the list the neighbor query returned, steps the
\* results of the cursor's steps so far, interleaved whether the graph was
\* changed after the first of them.
NoCursor == [kind |-> "none", iter |-> [done |-> FALSE, idx |-> 0, list |-> <<>>],
             snapshot |-> <<>>, steps |-> <<>>, interleaved |-> FALSE]

\* Neighbors::detach and NeighborsData::detach
detach(list) == [done |-> FALSE, idx |-> 0, list |-> list]

\* (variant) a step consults the graph and ends at a node that is not stored
next_node_live(it, g) ==
    IF it.done
    THEN [iter |-> it, ret |-> NoId]
    ELSE IF it.idx = Len(it.list) \/ it.list[it.idx + 1] \notin DOMAIN g.nodes_data
    THEN [iter |-> [it EXCEPT !.done = TRUE], ret |-> NoId]
    ELSE [iter |-> [it EXCEPT !.idx = 1 + it.idx], ret |-> it.list[it.idx + 1]]

\* NeighborsIter::next_node; its second argument is ignored, None is NoId
next_node(it, g) ==
    IF it.done
    THEN [iter |-> it, ret |-> NoId]
    ELSE IF it.idx = Len(it.list)
    THEN [iter |-> [it EXCEPT !.done = TRUE], ret |-> NoId]
    ELSE [iter |-> [it EXCEPT !.idx = 1 + it.idx], ret |-> it.list[it.idx + 1]]

\* NeighborsDataIter::next_node: the NodeId of the pair
data_next_node(it, g) ==
    IF it.done
    THEN [iter |-> it, ret |-> NoId]
    ELSE IF it.idx = Len(it.list)
    THEN [iter |-> [it EXCEPT !.done = TRUE], ret |-> NoId]
    ELSE [iter |-> [it EXCEPT !.idx = 1 + it.idx], ret |-> it.list[it.idx + 1][1]]

\* (variant) a step returns the element and stays where it is
data_next_stuck(it) ==
    IF it.done
    THEN [iter |-> it, ret |-> NoData]
    ELSE IF it.idx = Len(it.list)
    THEN [iter |-> [it EXCEPT !.done = TRUE], ret |-> NoData]
    ELSE [iter |-> it, ret |-> it.list[it.idx + 1][2]]

\* Iterator::next of NeighborsDataIter: the payload of the pair, None is NoData
data_next(it) ==
    IF it.done
    THEN [iter |-> it, ret |-> NoData]
    ELSE IF it.idx = Len(it.list)
    THEN [iter |-> [it EXCEPT !.done = TRUE], ret |-> NoData]
    ELSE [iter |-> [it EXCEPT !.idx = 1 + it.idx], ret |-> it.list[it.idx + 1][2]]

\* A NeighborsDataIter borrows the graph through the references in its list,
\* so a call that takes &mut self can only come after the cursor's last use;
\* a NeighborsIter owns its list and lives on.
after_mutation(c) ==
    IF c.kind = "ids" THEN [c EXCEPT !.interleaved = c.interleaved \/ c.steps # <<>>]
    ELSE NoCursor

(* ---- the record of a call ---- *)

Summary(op, id, l, r, data, ret) ==
    [op |-> op, id |-> id, l |-> l, r |-> r, data |-> data, ret |-> ret]

NoCall == Summary("new", NoId, NoId, NoId, NoData, NoId)

\* call: the operation and its arguments; list: what a query produced;
\* panicked: the call ended in a panic; present: the handle passed to a
\* removal or a lookup was stored when the call began; edges_gone: how many
\* edges the call took out of the edge index; repeat: a removal that repeats
\* the call right before it
Call(s, list, panicked, present) ==
    [call |-> s, list |-> list, panicked |-> panicked, present |-> present,
     edges_gone |-> Cardinality((DOMAIN edge_nodes) \ (DOMAIN edge_nodes')),
     repeat |-> s.op \in {"remove_node", "remove_edge"} /\ s = last.call]

\* the NodeIds a caller holds: those returned by add_node, removed or not
IssuedNodes == {issued[i].id : i \in {j \in DOMAIN issued : issued[j].kind = "node"}}

\* the EdgeIds a caller holds: those returned by add_edge
IssuedEdges == {issued[i].id : i \in {j \in DOMAIN issued : issued[j].kind = "edge"}}

\* the NodeIds passed to a call: every one issued, stored or removed, and one
\* never issued (no add call has returned the integer next_id yet)
NodeIdArgs == IssuedNodes \cup {next_id}

\* the EdgeIds passed to a call, likewise
EdgeIdArgs == IssuedEdges \cup {next_id}

Install(g) ==
    /\ next_id' = g.next_id
    /\ nodes_data' = g.nodes_data
    /\ edges_data' = g.edges_data
    /\ edge_nodes' = g.edge_nodes

(* ---- state machine ---- *)

\* a graph fresh from Graph::default(), no call made and no cursor taken
Fresh ==
    /\ next_id = default.next_id
    /\ nodes_data = default.nodes_data
    /\ edges_data = default.edges_data
    /\ edge_nodes = default.edge_nodes
    /\ issued = <<>>
    /\ last = [call |-> NoCall, list |-> <<>>, panicked |-> FALSE, present |-> FALSE,
               edges_gone |-> 0, repeat |-> FALSE]
    /\ cursor = NoCursor

Init ==
    /\ Fresh
    /\ adds_left = MaxNextId

\* the same start with one add call less, for the specifications whose
\* calls have many arguments
InitSmall ==
    /\ Fresh
    /\ adds_left = MaxNextId - 1

\* a graph whose counter stands at the end of its range, as it is after
\* add_node("a") twice (handles 0 and 1), add_edge(0, 1, "u") for every
\* handle from 2 to USIZE_MAX - 1, and remove_node(1), which takes all the
\* edges with it
InitOverflow ==
    /\ next_id = USIZE_MAX
    /\ nodes_data = MapInsert(EmptyMap, 0, "a")
    /\ edges_data = EmptyMap
    /\ edge_nodes = EmptyMap
    /\ issued = [i \in 1 .. USIZE_MAX |->
                   [kind |-> IF i <= 2 THEN "node" ELSE "edge", id |-> i - 1]]
    /\ last = [call |-> Summary("remove_node", 1, NoId, NoId, NoData, NoId),
               list |-> <<>>, panicked |-> FALSE, present |-> TRUE,
               edges_gone |-> USIZE_MAX - 2, repeat |-> FALSE]
    /\ cursor = NoCursor
    /\ adds_left = OverflowAdds

AddNode ==
    /\ adds_left > 0
    /\ adds_left' = adds_left - 1
    /\ cursor' = after_mutation(cursor)
    /\ \E node \in NodeUserData, panics \in overflow_panics(next_id) :
         LET res == add_node(Graph, node) IN
         IF panics
         THEN /\ UNCHANGED <<next_id, nodes_data, edges_data, edge_nodes, issued>>
              /\ last' = Call(Summary("add_node", NoId, NoId, NoId, node, NoId), <<>>, TRUE, FALSE)
         ELSE /\ Install(res.g)
              /\ issued' = Append(issued, [kind |-> "node", id |-> res.ret])
              /\ last' = Call(Summary("add_node", NoId, NoId, NoId, node, res.ret), <<>>, FALSE, FALSE)

RemoveNode ==
    \E id \in NodeIdArgs :
      /\ Install(remove_node(Graph, id))
      /\ last' = Call(Summary("remove_node", id, NoId, NoId, NoData, NoId), <<>>, FALSE,
                      id \in DOMAIN nodes_data)
      /\ UNCHANGED <<issued, adds_left>>
      /\ cursor' = after_mutation(cursor)

AddEdge ==
    /\ adds_left > 0
    /\ adds_left' = adds_left - 1
    /\ cursor' = after_mutation(cursor)
    /\ \E l \in IssuedNodes, r \in IssuedNodes, edge \in EdgeUserData,
          panics \in overflow_panics(next_id) :
         LET res == add_edge(Graph, l, r, edge) IN
         IF panics
         THEN /\ UNCHANGED <<next_id, nodes_data, edges_data, edge_nodes, issued>>
              /\ last' = Call(Summary("add_edge", NoId, l, r, edge, NoId), <<>>, TRUE, FALSE)
         ELSE /\ Install(res.g)
              /\ issued' = Append(issued, [kind |-> "edge", id |-> res.ret])
              /\ last' = Call(Summary("add_edge", NoId, l, r, edge, res.ret), <<>>, FALSE, FALSE)

RemoveEdge ==
    \E id \in EdgeIdArgs :
      /\ Install(remove_edge(Graph, id))
      /\ last' = Call(Summary("remove_edge", id, NoId, NoId, NoData, NoId), <<>>, FALSE,
                      id \in DOMAIN edge_nodes)
      /\ UNCHANGED <<issued, adds_left>>
      /\ cursor' = after_mutation(cursor)

\* the payloads a caller may write through the reference index_mut returns;
\* when index_mut panics there is no reference and nothing is written
WritesNode(idx) == IF idx \in DOMAIN nodes_data THEN NodeUserData ELSE {NoData}

WritesEdge(idx) == IF idx \in DOMAIN edges_data THEN EdgeUserData ELSE {NoData}

IndexMutNode ==
    \E idx \in NodeIdArgs : \E v \in WritesNode(idx) :
      LET res == index_mut_node(Graph, idx, v) IN
      /\ Install(res.g)
      /\ last' = Call(Summary("index_mut_node", idx, NoId, NoId,
                              IF res.panicked THEN NoData ELSE v, NoId), <<>>, res.panicked,
                      idx \in DOMAIN nodes_data)
      /\ UNCHANGED <<issued, adds_left>>
      /\ cursor' = after_mutation(cursor)

IndexMutEdge ==
    \E idx \in EdgeIdArgs : \E v \in WritesEdge(idx) :
      LET res == index_mut_edge(Graph, idx, v) IN
      /\ Install(res.g)
      /\ last' = Call(Summary("index_mut_edge", idx, NoId, NoId,
                              IF res.panicked THEN NoData ELSE v, NoId), <<>>, res.panicked,
                      idx \in DOMAIN edges_data)
      /\ UNCHANGED <<issued, adds_left>>
      /\ cursor' = after_mutation(cursor)

IndexNode ==
    \E idx \in NodeIdArgs :
      LET res == index_node(Graph, idx) IN
      /\ UNCHANGED <<next_id, nodes_data, edges_data, edge_nodes, issued, adds_left, cursor>>
      /\ last' = Call(Summary("index_node", idx, NoId, NoId, NoData, NoId),
                      IF res.panicked THEN <<>> ELSE <<res.val>>, res.panicked,
                      idx \in DOMAIN nodes_data)

IndexEdge ==
    \E idx \in EdgeIdArgs :
      LET res == index_edge(Graph, idx) IN
      /\ UNCHANGED <<next_id, nodes_data, edges_data, edge_nodes, issued, adds_left, cursor>>
      /\ last' = Call(Summary("index_edge", idx, NoId, NoId, NoData, NoId),
                      IF res.panicked THEN <<>> ELSE <<res.val>>, res.panicked,
                      idx \in DOMAIN edges_data)

IndexTwiceMut ==
    \E id1 \in NodeIdArgs, id2 \in NodeIdArgs :
      \E v1 \in WritesNode(id1), v2 \in WritesNode(id2) :
      \E res \in index_twice_mut(Graph, id1, id2, v1, v2) :
        /\ Install(res.g)
        /\ last' = Call(Summary("index_twice_mut", NoId, id1, id2, NoData, NoId),
                        IF res.panicked THEN <<>> ELSE <<v1, v2>>, res.panicked,
                        {id1, id2} \subseteq DOMAIN nodes_data)
        /\ UNCHANGED <<issued, adds_left>>
        /\ cursor' = after_mutation(cursor)

VisitEdges ==
    \E order \in IterOrders(DOMAIN edges_data) :
      LET res == visit_edges(Graph, order) IN
      /\ UNCHANGED <<next_id, nodes_data, edges_data, edge_nodes, issued, adds_left, cursor>>
      /\ last' = Call(Summary("visit_edges", NoId, NoId, NoId, NoData, NoId), res.list,
                      res.panicked, FALSE)

Neighbors ==
    \E order \in IterOrders(DOMAIN edge_nodes), id \in NodeIdArgs :
      /\ UNCHANGED <<next_id, nodes_data, edges_data, edge_nodes, issued, adds_left, cursor>>
      /\ last' = Call(Summary("neighbors", id, NoId, NoId, NoData, NoId),
                      neighbors(Graph, id, order), FALSE, id \in DOMAIN nodes_data)

NeighborsData ==
    \E order \in IterOrders(DOMAIN edge_nodes), id \in NodeIdArgs :
      LET res == neighbors_data(Graph, id, order) IN
      /\ UNCHANGED <<next_id, nodes_data, edges_data, edge_nodes, issued, adds_left, cursor>>
      /\ last' = Call(Summary("neighbors_data", id, NoId, NoId, NoData, NoId), res.list,
                      res.panicked, id \in DOMAIN nodes_data)

\* a cursor is stepped until it has returned None MaxNones times
CanStep == Len(cursor.steps) < Len(cursor.iter.list) + MaxNones

Stepped(res, op) ==
    [cursor EXCEPT !.iter = res.iter, !.steps = Append(@, [op |-> op, ret |-> res.ret])]

\* neighbors(id).detach(): the only use a caller can make of the value that
\* neighbors returns
Detach ==
    \E order \in IterOrders(DOMAIN edge_nodes), id \in NodeIdArgs :
      LET list == neighbors(Graph, id, order) IN
      /\ cursor' = [kind |-> "ids", iter |-> detach(list), snapshot |-> list,
                    steps |-> <<>>, interleaved |-> FALSE]
      /\ UNCHANGED <<next_id, nodes_data, edges_data, edge_nodes, issued, adds_left>>
      /\ last' = Call(Summary("detach", id, NoId, NoId, NoData, NoId), <<>>, FALSE,
                      id \in DOMAIN nodes_data)

\* neighbors_data(id).detach(); when neighbors_data panics there is nothing
\* to detach and the cursor held so far stays
DetachData ==
    \E order \in IterOrders(DOMAIN edge_nodes), id \in NodeIdArgs :
      LET res == neighbors_data(Graph, id, order) IN
      /\ cursor' = IF res.panicked THEN cursor
                   ELSE [kind |-> "data", iter |-> detach(res.list), snapshot |-> res.list,
                         steps |-> <<>>, interleaved |-> FALSE]
      /\ UNCHANGED <<next_id, nodes_data, edges_data, edge_nodes, issued, adds_left>>
      /\ last' = Call(Summary("detach_data", id, NoId, NoId, NoData, NoId), <<>>,
                      res.panicked, id \in DOMAIN nodes_data)

NextNode ==
    /\ cursor.kind = "ids"
    /\ CanStep
    /\ LET res == next_node(cursor.iter, Graph) IN
       /\ cursor' = Stepped(res, "next_node")
       /\ UNCHANGED <<next_id, nodes_data, edges_data, edge_nodes, issued, adds_left>>
       /\ last' = Call(Summary("next_node", NoId, NoId, NoId, NoData, res.ret), <<>>, FALSE, FALSE)

DataNextNode ==
    /\ cursor.kind = "data"
    /\ CanStep
    /\ LET res == data_next_node(cursor.iter, Graph) IN
       /\ cursor' = Stepped(res, "next_node")
       /\ UNCHANGED <<next_id, nodes_data, edges_data, edge_nodes, issued, adds_left>>
       /\ last' = Call(Summary("data_next_node", NoId, NoId, NoId, NoData, res.ret), <<>>, FALSE, FALSE)

DataNext ==
    /\ cursor.kind = "data"
    /\ CanStep
    /\ LET res == data_next(cursor.iter) IN
       /\ cursor' = Stepped(res, "next")
       /\ UNCHANGED <<next_id, nodes_data, edges_data, edge_nodes, issued, adds_left>>
       /\ last' = Call(Summary("data_next", NoId, NoId, NoId, res.ret, NoId), <<>>, FALSE, FALSE)

Next ==
    \/ AddNode
    \/ RemoveNode
    \/ AddEdge
    \/ RemoveEdge
    \/ IndexMutNode
    \/ IndexMutEdge
    \/ IndexNode
    \/ IndexEdge
    \/ IndexTwiceMut
    \/ VisitEdges
    \/ Neighbors
    \/ NeighborsData

Spec == Init /\ [][Next]_vars

\* The four calls that change the structure of the graph.  The queries take
\* &self and leave every field as it is, and index_mut only replaces a
\* stored payload by a value add_node or add_edge could have stored, so the
\* graphs reached are the same with or without them.
NextStructure ==
    \/ AddNode
    \/ RemoveNode
    \/ AddEdge
    \/ RemoveEdge

SpecStructure == Init /\ [][NextStructure]_vars

\* The structural calls together with the read and the write of a node
\* payload through its NodeId.
NextNodeAccess ==
    \/ AddNode
    \/ RemoveNode
    \/ AddEdge
    \/ RemoveEdge
    \/ IndexNode
    \/ IndexMutNode

SpecNodeAccess == Init /\ [][NextNodeAccess]_vars

\* The structural calls together with the write of two node payloads at once.
NextDualAccess ==
    \/ AddNode
    \/ RemoveNode
    \/ AddEdge
    \/ RemoveEdge
    \/ IndexTwiceMut

SpecDualAccess == InitSmall /\ [][NextDualAccess]_vars

\* The structural calls together with the four lookups by handle.
NextLookup ==
    \/ AddNode
    \/ RemoveNode
    \/ AddEdge
    \/ RemoveEdge
    \/ IndexNode
    \/ IndexMutNode
    \/ IndexEdge
    \/ IndexMutEdge

SpecLookup == InitSmall /\ [][NextLookup]_vars

\* The structural calls on a graph whose counter is about to run out.
SpecOverflow == InitOverflow /\ [][NextStructure]_vars

\* The structural calls and the cursors detached from the results of the two
\* neighbor queries.
NextCursor ==
    \/ AddNode
    \/ RemoveNode
    \/ AddEdge
    \/ RemoveEdge
    \/ Detach
    \/ DetachData
    \/ NextNode
    \/ DataNextNode
    \/ DataNext

SpecCursor == InitSmall /\ [][NextCursor]_vars

\* The structural calls together with the two neighbor queries.
NextNeighbors ==
    \/ AddNode
    \/ RemoveNode
    \/ AddEdge
    \/ RemoveEdge
    \/ Neighbors
    \/ NeighborsData

SpecNeighbors == Init /\ [][NextNeighbors]_vars

(* ---- vocabulary of the properties ---- *)

\* the endpoints of a stored edge, the edges touching a node, and the far
\* end of an edge seen from a node, read off a graph value
Endpoints(g, e) == {g.edge_nodes[e][1], g.edge_nodes[e][2]}

Incident(g, n) == {e \in DOMAIN g.edge_nodes : n \in Endpoints(g, e)}

Opposite(g, e, n) ==
    IF g.edge_nodes[e][1] = n THEN g.edge_nodes[e][2] ELSE g.edge_nodes[e][1]

\* how many entries of a sequence satisfy a test
Count(seq, Test(_)) == Cardinality({i \in DOMAIN seq : Test(seq[i])})

\* the step is a call of op (each action writes its own name into last)
Calls(op) == last'.call.op = op

(* ---- C1 ---- *)

\* C1: remove_node(n) of a stored node n lowers node_count by exactly one,
\* leaves no edge that had n as an endpoint in edge_nodes or in edges_data,
\* and keeps every other edge with its endpoints and payload; an EdgeId
\* that has left the edge maps never comes back, so no later enumeration
\* shows it.
C1_RemoveNodeCascades ==
    [][ /\ (Calls("remove_node") /\ last'.call.id \in DOMAIN nodes_data) =>
             LET n == last'.call.id IN
             /\ node_count(Graph') = node_count(Graph) - 1
             /\ n \notin DOMAIN nodes_data'
             /\ \A e \in Incident(Graph, n) :
                  e \notin (DOMAIN edge_nodes') \cup (DOMAIN edges_data')
             /\ \A e \in (DOMAIN edge_nodes) \ Incident(Graph, n) :
                  /\ e \in DOMAIN edge_nodes' /\ edge_nodes'[e] = edge_nodes[e]
                  /\ e \in DOMAIN edges_data' /\ edges_data'[e] = edges_data[e]
        /\ \A e \in IssuedEdges \ ((DOMAIN edge_nodes) \cup (DOMAIN edges_data)) :
             e \notin (DOMAIN edge_nodes') \cup (DOMAIN edges_data')
      ]_vars

\* a stored node was removed, the cascade took an edge with it, and an edge
\* that did not touch the node is still stored
C1_Witness ==
    /\ last.call.op = "remove_node"
    /\ last.present
    /\ last.edges_gone >= 1
    /\ DOMAIN edge_nodes # {}
    /\ DOMAIN nodes_data # {}

(* ---- C2 ---- *)

\* C2: both endpoints of every edge in edge_nodes are keys of nodes_data.
C2_NoDanglingEdge ==
    \A e \in DOMAIN edge_nodes : Endpoints(Graph, e) \subseteq DOMAIN nodes_data

(* ---- C3 ---- *)

\* C3: edges_data and edge_nodes have the same key set.
C3_EdgeMapsAgree == DOMAIN edges_data = DOMAIN edge_nodes

\* an edge was removed through its handle while another edge stays stored,
\* after both add_edge calls the bound allows
C3_Witness ==
    /\ last.call.op = "remove_edge"
    /\ last.present
    /\ DOMAIN edge_nodes # {}
    /\ Cardinality(IssuedEdges) >= 2

(* ---- C4 ---- *)

\* C4: the integers of the handles returned by add_node and add_edge, in
\* call order, start at 0 and strictly increase.
C4_HandlesIncrease ==
    /\ issued # <<>> => issued[1].id = 0
    /\ \A i, j \in DOMAIN issued : i < j => issued[i].id < issued[j].id

\* handles of both kinds were issued after a removal had already happened
C4_Witness ==
    /\ Len(issued) >= 3
    /\ IssuedNodes # {} /\ IssuedEdges # {}
    /\ \E i \in DOMAIN issued :
         /\ i < Len(issued)
         /\ issued[i].id \notin (DOMAIN nodes_data) \cup (DOMAIN edge_nodes)
         /\ issued[Len(issued)].id \in (DOMAIN nodes_data) \cup (DOMAIN edge_nodes)

(* ---- C5 ---- *)

\* C5: neighbors(n) of a stored node n yields, for every edge incident to n,
\* the opposite endpoint: each node m appears as often as there are edges
\* between n and m (so n itself only for a self-loop).
C5_NeighborsYieldOpposite ==
    (last.call.op = "neighbors" /\ last.present) =>
        LET n == last.call.id IN
        \A m \in IssuedNodes :
            Count(last.list, LAMBDA x : x = m)
              = Cardinality({e \in Incident(Graph, n) : Opposite(Graph, e, n) = m})

(* ---- C6 ---- *)

\* C6: neighbors_data(n) of a stored node n yields, for every edge incident
\* to n, the payload stored for the opposite endpoint (stated for graphs in
\* which those endpoints are stored).
C6_NeighborsDataYieldOpposite ==
    (/\ last.call.op = "neighbors_data"
     /\ last.present
     /\ \A e \in Incident(Graph, last.call.id) :
          Opposite(Graph, e, last.call.id) \in DOMAIN nodes_data) =>
        LET n == last.call.id IN
        /\ ~last.panicked
        /\ \A p \in NodeUserData :
             Count(last.list, LAMBDA x : x[2] = p)
               = Cardinality({e \in Incident(Graph, n) :
                                nodes_data[Opposite(Graph, e, n)] = p})

(* ---- C7 ---- *)

\* C7: visit_edges called right after e = add_edge(l, r, data) completes,
\* invokes the callback exactly once for every stored edge, and its one
\* call for e carries l's payload, r's payload and data.
C7_VisitAfterAddEdge ==
    [][ (last.call.op = "add_edge" /\ Calls("visit_edges")) =>
          LET e == last.call.ret IN
          /\ ~last'.panicked
          /\ \A f \in DOMAIN edges_data : Count(last'.list, LAMBDA x : x[1] = f) = 1
          /\ Len(last'.list) = Cardinality(DOMAIN edges_data)
          /\ \E i \in DOMAIN last'.list :
               last'.list[i] = <<e, nodes_data[last.call.l], nodes_data[last.call.r],
                                 last.call.data>>
      ]_vars

(* ---- C8 ---- *)

\* C8: remove_node of a NodeId that is not stored, and remove_edge of an
\* EdgeId that is not stored, leave next_id, nodes_data, edges_data and
\* edge_nodes as they were.
C8_RemoveAbsentIsNoOp ==
    [][ /\ (Calls("remove_node") /\ last'.call.id \notin DOMAIN nodes_data) => Graph' = Graph
        /\ (Calls("remove_edge") /\ last'.call.id \notin DOMAIN edge_nodes) => Graph' = Graph
      ]_vars

(* ---- C9 ---- *)

\* C9: a removal that repeats the removal made right before it (same
\* operation, same handle) leaves the graph as the first one left it.
C9_RemoveTwice ==
    [][ (/\ last.call.op \in {"remove_node", "remove_edge"}
         /\ last'.call = last.call) => Graph' = Graph ]_vars

\* remove_node was called twice in a row on a NodeId that add_node issued, in
\* a graph to which edges had been added
C9_Witness ==
    /\ last.call.op = "remove_node"
    /\ last.repeat
    /\ last.call.id \in IssuedNodes
    /\ IssuedEdges # {}

(* ---- C10 ---- *)

\* C10: remove_edge(e) takes e out of edge_nodes and edges_data and changes
\* nothing else: nodes_data, node_count, next_id and every other edge's
\* endpoints and payload stay.
C10_RemoveEdgeFrame ==
    [][ Calls("remove_edge") =>
          LET e == last'.call.id IN
          /\ nodes_data' = nodes_data
          /\ node_count(Graph') = node_count(Graph)
          /\ next_id' = next_id
          /\ DOMAIN edge_nodes' = (DOMAIN edge_nodes) \ {e}
          /\ DOMAIN edges_data' = (DOMAIN edges_data) \ {e}
          /\ \A f \in (DOMAIN edge_nodes) \ {e} : edge_nodes'[f] = edge_nodes[f]
          /\ \A f \in (DOMAIN edges_data) \ {e} : edges_data'[f] = edges_data[f]
      ]_vars

\* a stored edge between stored nodes was removed and another edge stays
C10_Witness ==
    /\ last.call.op = "remove_edge"
    /\ last.present
    /\ last.edges_gone = 1
    /\ DOMAIN nodes_data # {}
    /\ DOMAIN edge_nodes # {}

(* ---- C11 ---- *)

\* C11: a lookup of the handle add_node(x) returned yields x; a lookup of a
\* stored node yields its stored payload; and a stored node's payload stays
\* as it is across every call except a removal of that node and a write
\* through its own handle (index_mut, index_twice_mut).
C11_LookupReturnsPayload ==
    [][ /\ Calls("add_node") =>
             index_node(Graph', last'.call.ret) = [val |-> last'.call.data, panicked |-> FALSE]
        /\ (Calls("index_node") /\ last'.call.id \in DOMAIN nodes_data) =>
             /\ ~last'.panicked
             /\ last'.list = <<nodes_data[last'.call.id]>>
        /\ \A n \in DOMAIN nodes_data :
             (/\ ~(Calls("remove_node") /\ last'.call.id = n)
              /\ ~(Calls("index_mut_node") /\ last'.call.id = n)
              /\ ~(Calls("index_twice_mut") /\ n \in {last'.call.l, last'.call.r})) =>
                 index_node(Graph', n) = index_node(Graph, n)
      ]_vars

\* a node was looked up after later handles had been issued, one of them
\* removed, and another node's payload rewritten
C11_Witness ==
    /\ last.call.op = "index_node"
    /\ last.present
    /\ last.list # <<>>
    /\ next_id >= last.call.id + 3
    /\ \E i \in DOMAIN issued :
         /\ issued[i].id > last.call.id
         /\ issued[i].id \notin (DOMAIN nodes_data) \cup (DOMAIN edge_nodes)
    /\ \E m \in DOMAIN nodes_data : m # last.call.id /\ nodes_data[m] # last.list[1]

(* ---- C12 ---- *)

\* C12: index and index_mut, for a NodeId and for an EdgeId, called with a
\* handle that is not stored end in a panic: nothing is returned and the
\* graph is as before.  The handle of a node or edge just removed, and of
\* every edge removed with a node, is such a handle.
C12_AbsentLookupPanics ==
    [][ /\ ((Calls("index_node") \/ Calls("index_mut_node"))
              /\ last'.call.id \notin DOMAIN nodes_data) =>
             (last'.panicked /\ last'.list = <<>> /\ Graph' = Graph)
        /\ ((Calls("index_edge") \/ Calls("index_mut_edge"))
              /\ last'.call.id \notin DOMAIN edges_data) =>
             (last'.panicked /\ last'.list = <<>> /\ Graph' = Graph)
        /\ Calls("remove_node") =>
             /\ index_node(Graph', last'.call.id).panicked
             /\ \A e \in incident_edges(edge_nodes, last'.call.id) :
                  /\ index_edge(Graph', e).panicked
                  /\ index_mut_edge(Graph', e, "u").panicked
        /\ Calls("remove_edge") =>
             /\ index_edge(Graph', last'.call.id).panicked
             /\ index_mut_edge(Graph', last'.call.id, "u").panicked
      ]_vars

\* the lookup of an EdgeId that add_edge issued panicked, in a graph from
\* which a node has been removed and no edge is left
C12_Witness ==
    /\ last.call.op = "index_edge"
    /\ last.panicked
    /\ last.call.id \in IssuedEdges
    /\ IssuedNodes \ (DOMAIN nodes_data) # {}
    /\ DOMAIN edge_nodes = {}

(* ---- C13 ---- *)

\* C13: the cursor of neighbors(n).detach() is a frozen snapshot.  Whatever
\* add_node, add_edge, remove_node and remove_edge calls come between its
\* steps, the cursor still holds the list that neighbors returned, the
\* NodeIds its next_node steps have yielded are the first entries of that
\* list in order, and once a step has returned None they are the whole list.
C13_CursorIsSnapshot ==
    cursor.kind = "ids" =>
      LET yielded == SelectSeq(cursor.steps, LAMBDA st : st.ret # NoId)
          nones   == SelectSeq(cursor.steps, LAMBDA st : st.ret = NoId)
      IN  /\ cursor.iter.list = cursor.snapshot
          /\ Len(yielded) <= Len(cursor.snapshot)
          /\ \A i \in DOMAIN yielded : yielded[i].ret = cursor.snapshot[i]
          /\ nones # <<>> => Len(yielded) = Len(cursor.snapshot)

\* a cursor over two neighbors was drained to None with the last step taken
\* after calls that changed the graph between the steps and left no edge in
\* the edge index
C13_Witness ==
    /\ cursor.kind = "ids"
    /\ last.call.op = "next_node"
    /\ Len(cursor.snapshot) = 2
    /\ Len(cursor.steps) = 3
    /\ cursor.interleaved
    /\ DOMAIN edge_nodes = {}

(* ---- C14 ---- *)

\* C14: a NodeId that add_node issued and that is no longer a key of
\* nodes_data, and an EdgeId that add_edge issued and that is no longer a key
\* of the edge maps, is not a key after the next call either.
C14_RemovedStaysRemoved ==
    [][ /\ \A n \in IssuedNodes \ (DOMAIN nodes_data) : n \notin DOMAIN nodes_data'
        /\ \A e \in IssuedEdges \ (DOMAIN edge_nodes) : e \notin DOMAIN edge_nodes'
        /\ \A e \in IssuedEdges \ (DOMAIN edges_data) : e \notin DOMAIN edges_data'
      ]_vars

\* add_node was called after a node and an edge had been removed
C14_Witness ==
    /\ last.call.op = "add_node"
    /\ IssuedNodes \ (DOMAIN nodes_data) # {}
    /\ IssuedEdges \ (DOMAIN edge_nodes) # {}

(* ---- C15 ---- *)

\* C15: index_twice_mut(id1, id2) with id1 # id2 both stored, followed by
\* writes v1 and v2 through the two references, leaves id1 with v1 and id2
\* with v2 (as a lookup then shows) and every other node payload, every edge
\* and next_id as they were.
C15_DualAccess ==
    [][ (/\ Calls("index_twice_mut")
         /\ last'.call.l # last'.call.r
         /\ {last'.call.l, last'.call.r} \subseteq DOMAIN nodes_data) =>
          /\ ~last'.panicked
          /\ index_node(Graph', last'.call.l) = [val |-> last'.list[1], panicked |-> FALSE]
          /\ index_node(Graph', last'.call.r) = [val |-> last'.list[2], panicked |-> FALSE]
          /\ DOMAIN nodes_data' = DOMAIN nodes_data
          /\ \A n \in (DOMAIN nodes_data) \ {last'.call.l, last'.call.r} :
               nodes_data'[n] = nodes_data[n]
          /\ edges_data' = edges_data
          /\ edge_nodes' = edge_nodes
          /\ next_id' = next_id
      ]_vars

\* two different values were written to two different stored nodes, both
\* payloads changed by it, in a graph that has an edge
C15_Witness ==
    /\ last.call.op = "index_twice_mut"
    /\ ~last.panicked
    /\ last.call.l # last.call.r
    /\ last.list[1] # last.list[2]
    /\ DOMAIN edge_nodes # {}

(* ---- C16 ---- *)

\* C16: node_count starts at 0, rises by one with every add_node, falls by
\* one with every remove_node of a NodeId that was issued and not removed
\* before, and is left alone by every other call; all stored nodes carry
\* issued NodeIds.
C16_NodeCount ==
    [][ /\ node_count(Graph') =
             node_count(Graph)
               + (IF Calls("add_node") THEN 1 ELSE 0)
               - (IF Calls("remove_node") /\ last'.call.id \in DOMAIN nodes_data
                  THEN 1 ELSE 0)
        /\ DOMAIN nodes_data' \subseteq IssuedNodes'
      ]_vars

\* an edge was removed while a node is stored and another has been removed
C16_Witness ==
    /\ last.call.op = "remove_edge"
    /\ last.present
    /\ node_count(Graph) >= 1
    /\ node_count(Graph) < Cardinality(IssuedNodes)

(* ---- C17 ---- *)

\* C17: running out of the counter's range is fatal, the counter does not
\* wrap: no add call returns a handle that an earlier add call returned, so
\* the handles in issued are pairwise different, also in a run that takes
\* next_id to USIZE_MAX.
C17_ExhaustionIsFatal ==
    \A i, j \in DOMAIN issued : i # j => issued[i].id # issued[j].id

(* ---- C18 ---- *)

\* C18: a detached cursor of either kind is one-shot and fused.  Its
\* position is the number of elements yielded and never passes the length of
\* its list; step i yields element i of the list (the NodeId for next_node,
\* the payload for next) as long as i is within the list, and every later
\* step returns None; the cursor is marked done exactly when a step has
\* returned None.
C18_CursorOneShotFused ==
    cursor.kind # "none" =>
      LET it == cursor.iter
          n  == Len(it.list)
          Some(i) == IF cursor.kind = "ids" THEN it.list[i]
                     ELSE IF cursor.steps[i].op = "next_node" THEN it.list[i][1]
                     ELSE it.list[i][2]
          None(i) == IF cursor.steps[i].op = "next_node" THEN NoId ELSE NoData
      IN  /\ it.idx <= n
          /\ it.idx = IF Len(cursor.steps) <= n THEN Len(cursor.steps) ELSE n
          /\ it.done <=> Len(cursor.steps) > n
          /\ \A i \in DOMAIN cursor.steps :
               cursor.steps[i].ret = IF i <= n THEN Some(i) ELSE None(i)

\* a cursor over the pairs of two neighbors was stepped with both next_node
\* and next, and stepped twice more after it had run out
C18_Witness ==
    /\ cursor.kind = "data"
    /\ Len(cursor.iter.list) = 2
    /\ Len(cursor.steps) = 4
    /\ cursor.steps[1].op # cursor.steps[2].op
    /\ cursor.steps[3].op # cursor.steps[4].op
    /\ cursor.iter.done

(* ---- C19 ---- *)

\* C19: for every handle n, neighbors(n) and neighbors_data(n) produce one
\* entry for every edge of the edge index whose endpoint pair contains n:
\* parallel edges give one entry each and a self-loop (n, n) gives one
\* entry, not two.
C19_OneEntryPerIncidentEdge ==
    last.call.op \in {"neighbors", "neighbors_data"} =>
      /\ ~last.panicked
      /\ Len(last.list) = Cardinality(Incident(Graph, last.call.id))

====
